---- MODULE Spec2Model ----
(***************************************************************************)
(* The account list store of frontend/src/stores/accounts.ts and the       *)
(* container bootstrap script entrypoint.sh.                               *)
(*                                                                         *)
(* The store runs on one JavaScript event loop: an async function runs     *)
(* without interruption from its call up to its first await, and from the  *)
(* settlement of the awaited promise up to its next await or its end.      *)
(* Each such run is one action.  The account API is a black box whose      *)
(* calls stay in flight for any time and then fulfil or reject.            *)
(***************************************************************************)
EXTENDS Integers, Sequences, FiniteSets, Bags, TLC

VARIABLES
    accounts,     \* accounts.value: the held list of account records
    isLoading,    \* isLoading.value
    listCalls,    \* accountsApi.list() requests in flight (loadAccounts at its await)
    configCalls,  \* accountsApi.updateConfig() requests in flight
    ops,          \* bag of the other store operations with network calls in flight
    last,         \* the event of the latest step: what was called or what settled
    requests,     \* list() requests in flight by issue number, oldest first (SpecLoads)
    settled,      \* list() requests settled so far, in the order they settled (SpecLoads)
    pc,           \* entrypoint.sh: the command the shell is at
    xvfb,         \* the backgrounded display server process
    display,      \* the DISPLAY variable of the shell's environment
    exitCode,     \* exit status of the container's main process, -1 while alive
    xvfbOk,       \* environment: Xvfb can start on display 99
    sleepOk,      \* environment: the sleep command succeeds
    pythonOk      \* environment: the python interpreter can be exec'd

storeVars == <<accounts, isLoading, listCalls, configCalls, ops, last>>
bootVars == <<pc, xvfb, display, exitCode, xvfbOk, sleepOk, pythonOk>>
orderVars == <<requests, settled>>
vars == <<accounts, isLoading, listCalls, configCalls, ops, last, requests, settled,
          pc, xvfb, display, exitCode, xvfbOk, sleepOk, pythonOk>>

----
\* Bounds of the model.

\* list() requests in flight at once
MaxLoads == 2
\* updateConfig() requests in flight at once
MaxConfigs == 1
\* other store operations in flight at once
MaxOps == 1

\* Account ids callers pass.
Ids == {"a", "b"}

\* Id arguments of the bulk operations: no id, two ids, a repeated id.
IdLists == {<<>>, <<"a", "b">>, <<"b", "b">>}

----
\* Account records and list() responses.

Account(id, disabled, seconds, reason) ==
    [id |-> id, disabled |-> disabled, cooldown_seconds |-> seconds, cooldown_reason |-> reason]

\* The records the server holds: "a" enabled and throttled, "b" disabled.
ServerA == Account("a", FALSE, 30, "rate_limit")
ServerB == Account("b", TRUE, 0, "")

\* The account lists the server returns: every id identifies one record.
ServerLists == {<<>>, <<ServerA>>, <<ServerB, ServerA>>}

NoResponse == [kind |-> "none", has |-> FALSE, list |-> <<>>]

\* A list() response: a bare sequence, or an envelope with or without an accounts field.
Responses ==
    {[kind |-> "bare", has |-> FALSE, list |-> l] : l \in ServerLists}
    \cup {[kind |-> "envelope", has |-> TRUE, list |-> l] : l \in ServerLists}
    \cup {[kind |-> "envelope", has |-> FALSE, list |-> <<>>]}

\* Mutant: an envelope is not unwrapped, only a bare sequence is taken.
ResponseAccountsBareOnly(response) ==
    IF response.kind = "bare" THEN response.list ELSE <<>>

\* Array.isArray(response) ? response : response.accounts || []
ResponseAccounts(response) ==
    IF response.kind = "bare" THEN response.list
    ELSE IF response.has THEN response.list
    ELSE <<>>

----
\* The list operations of the store.

\* Mutant: the filter keeps the matching record instead of dropping it.
RemoveByIdKept(list, accountId) ==
    SelectSeq(list, LAMBDA acc : acc.id = accountId)

\* accounts.value.filter(acc => acc.id !== accountId)
RemoveById(list, accountId) ==
    SelectSeq(list, LAMBDA acc : acc.id # accountId)

Includes(accountIds, id) == \E i \in 1..Len(accountIds) : accountIds[i] = id

\* accounts.value.filter(acc => !accountIds.includes(acc.id))
RemoveByIds(list, accountIds) ==
    SelectSeq(list, LAMBDA acc : ~Includes(accountIds, acc.id))

\* Mutant: the comparison of find is negated, the first other record is found.
FindOther(list, id) ==
    IF \E i \in 1..Len(list) : list[i].id # id
    THEN CHOOSE i \in 1..Len(list) :
             /\ list[i].id # id
             /\ \A j \in 1..(i - 1) : list[j].id = id
    ELSE 0

\* accounts.value.find(acc => acc.id === id): the index of the first match, 0 if none
Find(list, id) ==
    IF \E i \in 1..Len(list) : list[i].id = id
    THEN CHOOSE i \in 1..Len(list) :
             /\ list[i].id = id
             /\ \A j \in 1..(i - 1) : list[j].id # id
    ELSE 0

\* Mutant: the list is rebuilt, the updated record is pushed after the others.
MarkDisabledRebuilt(list, id) ==
    IF Find(list, id) = 0 THEN list
    ELSE Append(RemoveById(list, id), [list[Find(list, id)] EXCEPT !.disabled = TRUE])

\* if (account) account.disabled = true
MarkDisabled(list, id) ==
    IF Find(list, id) = 0 THEN list
    ELSE [list EXCEPT ![Find(list, id)].disabled = TRUE]

\* Mutant: enabling leaves the cooldown fields as they are.
MarkEnabledKeepCooldown(list, id) ==
    IF Find(list, id) = 0 THEN list
    ELSE [list EXCEPT ![Find(list, id)].disabled = FALSE]

\* if (account) { account.disabled = false; cooldown_seconds = 0; cooldown_reason = '' }
MarkEnabled(list, id) ==
    IF Find(list, id) = 0 THEN list
    ELSE [list EXCEPT ![Find(list, id)].disabled = FALSE,
                      ![Find(list, id)].cooldown_seconds = 0,
                      ![Find(list, id)].cooldown_reason = ""]

\* accountIds.forEach(id => ...) of bulkDisable
RECURSIVE MarkAllDisabled(_, _)
MarkAllDisabled(list, accountIds) ==
    IF accountIds = <<>> THEN list
    ELSE MarkAllDisabled(MarkDisabled(list, Head(accountIds)), Tail(accountIds))

\* accountIds.forEach(id => ...) of bulkEnable
RECURSIVE MarkAllEnabled(_, _)
MarkAllEnabled(list, accountIds) ==
    IF accountIds = <<>> THEN list
    ELSE MarkAllEnabled(MarkEnabled(list, Head(accountIds)), Tail(accountIds))

\* The ids of a list, each once, in order of first occurrence.
RECURSIVE Distinct(_)
Distinct(accountIds) ==
    IF accountIds = <<>> THEN <<>>
    ELSE LET front == Distinct(SubSeq(accountIds, 1, Len(accountIds) - 1))
             id == accountIds[Len(accountIds)]
         IN  IF \E i \in 1..Len(front) : front[i] = id THEN front ELSE Append(front, id)

\* Mutant: one delete call per distinct id.
DeleteCallsDistinct(accountIds) ==
    [i \in 1..Len(Distinct(accountIds)) |->
        [id |-> Distinct(accountIds)[i], state |-> "pending"]]

\* accountIds.map(accountId => accountsApi.delete(accountId)): one call per element
DeleteCalls(accountIds) ==
    [i \in 1..Len(accountIds) |-> [id |-> accountIds[i], state |-> "pending"]]

Pending(calls) == Cardinality({i \in 1..Len(calls) : calls[i].state = "pending"})

\* Mutant: Promise.any in place of Promise.all, fulfilled by the first call
\* that fulfils.
PromiseAny(calls) ==
    IF \E i \in 1..Len(calls) : calls[i].state = "fulfilled" THEN "fulfilled"
    ELSE IF \A i \in 1..Len(calls) : calls[i].state = "rejected" THEN "rejected"
    ELSE "pending"

\* Promise.all(calls): rejected once any call has rejected, fulfilled once all
\* have fulfilled, pending otherwise
PromiseAll(calls) ==
    IF \E i \in 1..Len(calls) : calls[i].state = "rejected" THEN "rejected"
    ELSE IF \A i \in 1..Len(calls) : calls[i].state = "fulfilled" THEN "fulfilled"
    ELSE "pending"

----
\* Events and operations in flight.

\* What the latest step was: a call of a store operation ("call"), the settlement
\* of a store operation's promise ("settle": ok says fulfilled or rejected), or a
\* network reply that settles no store operation ("reply").  before is the list
\* the step started from (left empty when a list() response replaces the list),
\* pending the network calls of the operation still in flight after the step.
Event(type, op, ids, ok, response, before, pending) ==
    [type |-> type, op |-> op, ids |-> ids, ok |-> ok, response |-> response,
     before |-> before, pending |-> pending]

NoEvent == Event("init", "none", <<>>, TRUE, NoResponse, <<>>, 0)

\* A store operation suspended at its await: its name, its id arguments, its
\* delete calls (bulkDelete only), and whether none of its ids was in the list
\* when it was called (enable and disable operations only).
Op(op, ids, calls, absent) ==
    [op |-> op, ids |-> ids, calls |-> calls, absent |-> absent]

Absent(list, accountIds) ==
    \A i \in 1..Len(accountIds) : \A k \in 1..Len(list) : list[k].id # accountIds[i]

Suspend(o) == ops' = ops (+) SetToBag({o})
Finish(o) == ops' = ops (-) SetToBag({o})
InFlight(name) == {o \in BagToSet(ops) : o.op = name}
Room == BagCardinality(ops) < MaxOps

----
\* loadAccounts

\* isLoading.value = true; await accountsApi.list()
LoadAccountsStart ==
    /\ isLoading' = TRUE
    /\ listCalls' = listCalls + 1

LoadAccountsCall ==
    /\ listCalls + configCalls < MaxLoads
    /\ LoadAccountsStart
    /\ last' = Event("call", "loadAccounts", <<>>, TRUE, NoResponse, accounts, 0)
    /\ UNCHANGED <<accounts, configCalls, ops, bootVars>>

\* Mutant: the response is appended to the list instead of replacing it.
ListFulfilAppend(response) ==
    /\ listCalls > 0
    /\ accounts' = accounts \o ResponseAccounts(response)
    /\ isLoading' = FALSE
    /\ listCalls' = listCalls - 1
    /\ last' = Event("settle", "loadAccounts", <<>>, TRUE, response, <<>>, 0)
    /\ UNCHANGED <<configCalls, ops, bootVars>>

\* Mutant: a response is dropped while another list() request is in flight.
ListFulfilUnlessOverlap(response) ==
    /\ listCalls > 0
    /\ accounts' = IF listCalls > 1 THEN accounts ELSE ResponseAccounts(response)
    /\ isLoading' = FALSE
    /\ listCalls' = listCalls - 1
    /\ last' = Event("settle", "loadAccounts", <<>>, TRUE, response, <<>>, 0)
    /\ UNCHANGED <<configCalls, ops, bootVars>>

\* Mutant: records whose delete is in flight are kept out of the new list.
ListFulfilKeepDeleted(response) ==
    /\ listCalls > 0
    /\ accounts' = SelectSeq(ResponseAccounts(response),
                             LAMBDA acc : \A o \in InFlight("deleteAccount") \cup InFlight("bulkDelete") :
                                              ~Includes(o.ids, acc.id))
    /\ isLoading' = FALSE
    /\ listCalls' = listCalls - 1
    /\ last' = Event("settle", "loadAccounts", <<>>, TRUE, response, <<>>, 0)
    /\ UNCHANGED <<configCalls, ops, bootVars>>

\* Mutant: isLoading counts, it stays set while another list() is in flight.
ListFulfilCounted(response) ==
    /\ listCalls > 0
    /\ accounts' = ResponseAccounts(response)
    /\ isLoading' = (listCalls > 1)
    /\ listCalls' = listCalls - 1
    /\ last' = Event("settle", "loadAccounts", <<>>, TRUE, response, <<>>, 0)
    /\ UNCHANGED <<configCalls, ops, bootVars>>

\* list() fulfils: the list is replaced, then finally clears isLoading
ListFulfil(response) ==
    /\ listCalls > 0
    /\ accounts' = ResponseAccounts(response)
    /\ isLoading' = FALSE
    /\ listCalls' = listCalls - 1
    /\ last' = Event("settle", "loadAccounts", <<>>, TRUE, response, <<>>, 0)
    /\ UNCHANGED <<configCalls, ops, bootVars>>

\* Mutant: no finally, a rejected list() leaves isLoading set.
ListRejectNoFinally ==
    /\ listCalls > 0
    /\ listCalls' = listCalls - 1
    /\ last' = Event("settle", "loadAccounts", <<>>, FALSE, NoResponse, accounts, 0)
    /\ UNCHANGED <<accounts, isLoading, configCalls, ops, bootVars>>

\* list() rejects: the assignment is skipped, finally clears isLoading
ListReject ==
    /\ listCalls > 0
    /\ isLoading' = FALSE
    /\ listCalls' = listCalls - 1
    /\ last' = Event("settle", "loadAccounts", <<>>, FALSE, NoResponse, accounts, 0)
    /\ UNCHANGED <<accounts, configCalls, ops, bootVars>>

----
\* deleteAccount

\* Mutant: the record is not removed on the call (delete made confirm-then-update).
DeleteAccountCallDeferred(accountId) ==
    /\ Room
    /\ Suspend(Op("deleteAccount", <<accountId>>, <<>>, FALSE))
    /\ last' = Event("call", "deleteAccount", <<accountId>>, TRUE, NoResponse, accounts, 1)
    /\ UNCHANGED <<accounts, isLoading, listCalls, configCalls, bootVars, orderVars>>

\* accounts.value = accounts.value.filter(...); await accountsApi.delete(accountId)
DeleteAccountCall(accountId) ==
    /\ Room
    /\ accounts' = RemoveById(accounts, accountId)
    /\ Suspend(Op("deleteAccount", <<accountId>>, <<>>, FALSE))
    /\ last' = Event("call", "deleteAccount", <<accountId>>, TRUE, NoResponse, accounts, 1)
    /\ UNCHANGED <<isLoading, listCalls, configCalls, bootVars, orderVars>>

DeleteAccountSettle(o, ok) ==
    /\ o \in InFlight("deleteAccount")
    /\ Finish(o)
    /\ last' = Event("settle", "deleteAccount", o.ids, ok, NoResponse, accounts, 0)
    /\ UNCHANGED <<accounts, isLoading, listCalls, configCalls, bootVars, orderVars>>

----
\* disableAccount, enableAccount, bulkEnable, bulkDisable

DisableAccountCall(accountId) ==
    /\ Room
    /\ Suspend(Op("disableAccount", <<accountId>>, <<>>, Absent(accounts, <<accountId>>)))
    /\ last' = Event("call", "disableAccount", <<accountId>>, TRUE, NoResponse, accounts, 1)
    /\ UNCHANGED <<accounts, isLoading, listCalls, configCalls, bootVars, orderVars>>

DisableAccountResume(o) ==
    /\ o \in InFlight("disableAccount")
    /\ accounts' = MarkDisabled(accounts, o.ids[1])
    /\ Finish(o)
    /\ last' = Event("settle", "disableAccount", o.ids, TRUE, NoResponse, accounts, 0)
    /\ UNCHANGED <<isLoading, listCalls, configCalls, bootVars, orderVars>>

EnableAccountCall(accountId) ==
    /\ Room
    /\ Suspend(Op("enableAccount", <<accountId>>, <<>>, Absent(accounts, <<accountId>>)))
    /\ last' = Event("call", "enableAccount", <<accountId>>, TRUE, NoResponse, accounts, 1)
    /\ UNCHANGED <<accounts, isLoading, listCalls, configCalls, bootVars, orderVars>>

EnableAccountResume(o) ==
    /\ o \in InFlight("enableAccount")
    /\ accounts' = MarkEnabled(accounts, o.ids[1])
    /\ Finish(o)
    /\ last' = Event("settle", "enableAccount", o.ids, TRUE, NoResponse, accounts, 0)
    /\ UNCHANGED <<isLoading, listCalls, configCalls, bootVars, orderVars>>

BulkEnableCall(accountIds) ==
    /\ Room
    /\ Suspend(Op("bulkEnable", accountIds, <<>>, Absent(accounts, accountIds)))
    /\ last' = Event("call", "bulkEnable", accountIds, TRUE, NoResponse, accounts, 1)
    /\ UNCHANGED <<accounts, isLoading, listCalls, configCalls, bootVars, orderVars>>

BulkEnableResume(o) ==
    /\ o \in InFlight("bulkEnable")
    /\ accounts' = MarkAllEnabled(accounts, o.ids)
    /\ Finish(o)
    /\ last' = Event("settle", "bulkEnable", o.ids, TRUE, NoResponse, accounts, 0)
    /\ UNCHANGED <<isLoading, listCalls, configCalls, bootVars, orderVars>>

BulkDisableCall(accountIds) ==
    /\ Room
    /\ Suspend(Op("bulkDisable", accountIds, <<>>, Absent(accounts, accountIds)))
    /\ last' = Event("call", "bulkDisable", accountIds, TRUE, NoResponse, accounts, 1)
    /\ UNCHANGED <<accounts, isLoading, listCalls, configCalls, bootVars, orderVars>>

BulkDisableResume(o) ==
    /\ o \in InFlight("bulkDisable")
    /\ accounts' = MarkAllDisabled(accounts, o.ids)
    /\ Finish(o)
    /\ last' = Event("settle", "bulkDisable", o.ids, TRUE, NoResponse, accounts, 0)
    /\ UNCHANGED <<isLoading, listCalls, configCalls, bootVars, orderVars>>

\* Mutant: the local update is applied although the call was rejected.
ToggleRejectedApplied(o) ==
    /\ o \in InFlight("disableAccount") \cup InFlight("enableAccount")
              \cup InFlight("bulkEnable") \cup InFlight("bulkDisable")
    /\ accounts' = IF o.op \in {"disableAccount", "bulkDisable"}
                   THEN MarkAllDisabled(accounts, o.ids)
                   ELSE MarkAllEnabled(accounts, o.ids)
    /\ Finish(o)
    /\ last' = Event("settle", o.op, o.ids, FALSE, NoResponse, accounts, 0)
    /\ UNCHANGED <<isLoading, listCalls, configCalls, bootVars, orderVars>>

\* The awaited enable or disable call rejects: the await throws and the
\* operation ends without touching the list.
ToggleRejected(o) ==
    /\ o \in InFlight("disableAccount") \cup InFlight("enableAccount")
              \cup InFlight("bulkEnable") \cup InFlight("bulkDisable")
    /\ Finish(o)
    /\ last' = Event("settle", o.op, o.ids, FALSE, NoResponse, accounts, 0)
    /\ UNCHANGED <<accounts, isLoading, listCalls, configCalls, bootVars, orderVars>>

----
\* bulkDelete

BulkDeleteCall(accountIds) ==
    /\ Room
    /\ accounts' = RemoveByIds(accounts, accountIds)
    /\ Suspend(Op("bulkDelete", accountIds, DeleteCalls(accountIds), FALSE))
    /\ last' = Event("call", "bulkDelete", accountIds, TRUE, NoResponse, accounts,
                     Pending(DeleteCalls(accountIds)))
    /\ UNCHANGED <<isLoading, listCalls, configCalls, bootVars, orderVars>>

\* The calls of o after its i-th delete call settled.
Settled(o, i, ok) ==
    [o.calls EXCEPT ![i].state = IF ok THEN "fulfilled" ELSE "rejected"]

\* One delete call of a bulkDelete settles.  The await of Promise.all resumes,
\* and bulkDelete settles, in the step that takes Promise.all out of pending;
\* delete calls still in flight then stay in flight.
BulkDeleteReply(o, i, ok) ==
    /\ o \in InFlight("bulkDelete")
    /\ o.calls[i].state = "pending"
    /\ ops' = IF Pending(Settled(o, i, ok)) = 0
              THEN ops (-) SetToBag({o})
              ELSE (ops (-) SetToBag({o})) (+) SetToBag({[o EXCEPT !.calls = Settled(o, i, ok)]})
    /\ last' = IF PromiseAll(o.calls) = "pending" /\ PromiseAll(Settled(o, i, ok)) # "pending"
               THEN Event("settle", "bulkDelete", o.ids,
                          PromiseAll(Settled(o, i, ok)) = "fulfilled",
                          NoResponse, accounts, Pending(Settled(o, i, ok)))
               ELSE Event("reply", "bulkDelete", o.ids, ok, NoResponse, accounts,
                          Pending(Settled(o, i, ok)))
    /\ UNCHANGED <<accounts, isLoading, listCalls, configCalls, bootVars, orderVars>>

\* bulkDelete([]): Promise.all of no calls is fulfilled, the await resumes at once.
BulkDeleteNone(o) ==
    /\ o \in InFlight("bulkDelete")
    /\ o.calls = <<>>
    /\ Finish(o)
    /\ last' = Event("settle", "bulkDelete", o.ids, PromiseAll(o.calls) = "fulfilled",
                     NoResponse, accounts, 0)
    /\ UNCHANGED <<accounts, isLoading, listCalls, configCalls, bootVars, orderVars>>

----
\* updateConfig.  The configuration items are passed through to the API and
\* never read by the store; they are not modelled.

UpdateConfigCall ==
    /\ configCalls < MaxConfigs
    /\ listCalls + configCalls < MaxLoads
    /\ configCalls' = configCalls + 1
    /\ last' = Event("call", "updateConfig", <<>>, TRUE, NoResponse, accounts, 1)
    /\ UNCHANGED <<accounts, isLoading, listCalls, ops, bootVars, orderVars>>

\* Mutant: updateConfig ends without calling loadAccounts.
UpdateConfigResumeNoReload ==
    /\ configCalls > 0
    /\ configCalls' = configCalls - 1
    /\ last' = Event("reply", "updateConfig", <<>>, TRUE, NoResponse, accounts, 0)
    /\ UNCHANGED <<accounts, isLoading, listCalls, ops, bootVars>>

\* The updateConfig request fulfils: await loadAccounts()
UpdateConfigResume ==
    /\ configCalls > 0
    /\ configCalls' = configCalls - 1
    /\ LoadAccountsStart
    /\ last' = Event("reply", "updateConfig", <<>>, TRUE, NoResponse, accounts, 1)
    /\ UNCHANGED <<accounts, ops, bootVars>>

\* The updateConfig request rejects: the await throws, loadAccounts is not reached
UpdateConfigRejected ==
    /\ configCalls > 0
    /\ configCalls' = configCalls - 1
    /\ last' = Event("settle", "updateConfig", <<>>, FALSE, NoResponse, accounts, 0)
    /\ UNCHANGED <<accounts, isLoading, listCalls, ops, bootVars, orderVars>>

----
\* entrypoint.sh, run by bash under set -e.

\* Xvfb :99 -screen 0 1280x800x24 -ac &
\* The shell forks the server and goes on at once: the status of a background
\* command is 0 whatever becomes of it, so set -e never sees its failure.
StartXvfb ==
    /\ pc = "xvfb"
    /\ xvfb' = "starting"
    /\ pc' = "sleep"
    /\ UNCHANGED <<display, exitCode, xvfbOk, sleepOk, pythonOk, storeVars, orderVars>>

\* The background server comes up and listens on display 99.
XvfbListen ==
    /\ xvfb = "starting"
    /\ xvfbOk
    /\ xvfb' = "listening"
    /\ UNCHANGED <<pc, display, exitCode, xvfbOk, sleepOk, pythonOk, storeVars, orderVars>>

\* The background server fails to start and exits non-zero.
XvfbFail ==
    /\ xvfb = "starting"
    /\ ~xvfbOk
    /\ xvfb' = "failed"
    /\ UNCHANGED <<pc, display, exitCode, xvfbOk, sleepOk, pythonOk, storeVars, orderVars>>

\* sleep 1: a foreground command, under set -e its failure ends the script
Sleep ==
    /\ pc = "sleep"
    /\ IF sleepOk
       THEN pc' = "export" /\ UNCHANGED exitCode
       ELSE pc' = "exited" /\ exitCode' = 1
    /\ UNCHANGED <<xvfb, display, xvfbOk, sleepOk, pythonOk, storeVars, orderVars>>

\* Mutant: the export line is missing, DISPLAY stays as inherited.
ExportDisplaySkipped ==
    /\ pc = "export"
    /\ pc' = "exec"
    /\ UNCHANGED <<xvfb, display, exitCode, xvfbOk, sleepOk, pythonOk, storeVars, orderVars>>

\* export DISPLAY=:99
ExportDisplay ==
    /\ pc = "export"
    /\ display' = ":99"
    /\ pc' = "exec"
    /\ UNCHANGED <<xvfb, exitCode, xvfbOk, sleepOk, pythonOk, storeVars, orderVars>>

\* exec python -u main.py: the shell becomes the application, or exits 127
ExecPython ==
    /\ pc = "exec"
    /\ IF pythonOk
       THEN pc' = "app" /\ UNCHANGED exitCode
       ELSE pc' = "exited" /\ exitCode' = 127
    /\ UNCHANGED <<xvfb, display, xvfbOk, sleepOk, pythonOk, storeVars, orderVars>>

\* The application ends; its status is the status of the container's process.
AppExit(code) ==
    /\ pc = "app"
    /\ pc' = "exited"
    /\ exitCode' = code
    /\ UNCHANGED <<xvfb, display, xvfbOk, sleepOk, pythonOk, storeVars, orderVars>>

\* The shell at its first command, in one fixed environment.
BootIdle ==
    /\ pc = "xvfb"
    /\ xvfb = "none"
    /\ display = "unset"
    /\ exitCode = -1
    /\ xvfbOk = TRUE
    /\ sleepOk = TRUE
    /\ pythonOk = TRUE

\* The shell at its first command, in any environment.
BootInit ==
    /\ pc = "xvfb"
    /\ xvfb = "none"
    /\ display \in {"unset", ":0"}
    /\ exitCode = -1
    /\ xvfbOk \in BOOLEAN
    /\ sleepOk \in BOOLEAN
    /\ pythonOk \in BOOLEAN

----
\* The store: const accounts = ref([]), const isLoading = ref(false)

StoreInit ==
    /\ accounts = <<>>
    /\ isLoading = FALSE
    /\ listCalls = 0
    /\ configCalls = 0
    /\ ops = EmptyBag
    /\ last = NoEvent
    /\ requests = <<>>
    /\ settled = <<>>

Init == StoreInit /\ BootIdle

Next ==
    \/ LoadAccountsCall /\ UNCHANGED orderVars
    \/ \E response \in Responses : ListFulfil(response) /\ UNCHANGED orderVars
    \/ ListReject /\ UNCHANGED orderVars
    \/ \E id \in Ids : DeleteAccountCall(id)
    \/ \E o \in BagToSet(ops), ok \in BOOLEAN : DeleteAccountSettle(o, ok)
    \/ \E id \in Ids : DisableAccountCall(id)
    \/ \E o \in BagToSet(ops) : DisableAccountResume(o)
    \/ \E id \in Ids : EnableAccountCall(id)
    \/ \E o \in BagToSet(ops) : EnableAccountResume(o)
    \/ \E ids \in IdLists : BulkEnableCall(ids)
    \/ \E o \in BagToSet(ops) : BulkEnableResume(o)
    \/ \E ids \in IdLists : BulkDisableCall(ids)
    \/ \E o \in BagToSet(ops) : BulkDisableResume(o)
    \/ \E o \in BagToSet(ops) : ToggleRejected(o)
    \/ \E ids \in IdLists : BulkDeleteCall(ids)
    \/ \E o \in BagToSet(ops) : \E i \in 1..Len(o.calls), ok \in BOOLEAN :
           BulkDeleteReply(o, i, ok)
    \/ \E o \in BagToSet(ops) : BulkDeleteNone(o)
    \/ UpdateConfigCall
    \/ UpdateConfigResume /\ UNCHANGED orderVars
    \/ UpdateConfigRejected

Spec == Init /\ [][Next]_vars

----
\* Overlapping loads.  The load operations alone, with every list() request
\* numbered in the order of issue and every settlement logged in the order
\* of settling, so that the two orders can be told apart.

\* list() requests issued so far, at most this many in a run
MaxIssued == 3

Issued == Len(requests) + Len(settled)

Without(seq, i) == SubSeq(seq, 1, i - 1) \o SubSeq(seq, i + 1, Len(seq))

\* accountsApi.list() is called: the request gets the next issue number
Issue ==
    /\ requests' = Append(requests, Issued + 1)
    /\ UNCHANGED settled

\* The i-th oldest request in flight settles; seen is the number of requests
\* issued by then.
SettleAt(i, ok, response) ==
    /\ requests' = Without(requests, i)
    /\ settled' = Append(settled, [n |-> requests[i], ok |-> ok, response |-> response,
                                   seen |-> Issued])

OrderedLoadCall ==
    /\ Issued + configCalls < MaxIssued
    /\ LoadAccountsCall
    /\ Issue

OrderedListFulfil(i, response) ==
    /\ ListFulfil(response)
    /\ SettleAt(i, TRUE, response)

OrderedListReject(i) ==
    /\ ListReject
    /\ SettleAt(i, FALSE, NoResponse)

OrderedConfigCall ==
    /\ Issued + configCalls < MaxIssued
    /\ UpdateConfigCall

OrderedConfigResume ==
    /\ UpdateConfigResume
    /\ Issue

NextLoads ==
    \/ OrderedLoadCall
    \/ \E i \in 1..Len(requests) : \E response \in Responses : OrderedListFulfil(i, response)
    \/ \E i \in 1..Len(requests) : OrderedListReject(i)
    \/ OrderedConfigCall
    \/ OrderedConfigResume
    \/ UpdateConfigRejected

SpecLoads == Init /\ [][NextLoads]_vars

InitBoot == StoreInit /\ BootInit

NextBoot ==
    \/ StartXvfb
    \/ XvfbListen
    \/ XvfbFail
    \/ Sleep
    \/ ExportDisplay
    \/ ExecPython
    \/ \E code \in {0, 1} : AppExit(code)

SpecBoot == InitBoot /\ [][NextBoot]_vars

----
\* Properties of the store and of the bootstrap script.

ToggleOps == {"disableAccount", "enableAccount", "bulkEnable", "bulkDisable"}

Settles(name) == last.type = "settle" /\ last.op = name
Calls(name) == last.type = "call" /\ last.op = name

\* list without its k-th record
RemoveAt(list, k) == SubSeq(list, 1, k - 1) \o SubSeq(list, k + 1, Len(list))

\* C1: when a loadAccounts call settles isLoading is false, fulfilled or
\* rejected; when list() fulfilled, accounts is the returned sequence for a
\* bare sequence, the accounts field for an envelope, and empty for an
\* envelope without an accounts field.
C1_LoadSettled ==
    Settles("loadAccounts") =>
        /\ isLoading = FALSE
        /\ (last.ok /\ last.response.kind = "bare") => accounts = last.response.list
        /\ (last.ok /\ last.response.kind = "envelope" /\ last.response.has)
               => accounts = last.response.list
        /\ (last.ok /\ last.response.kind = "envelope" /\ ~last.response.has)
               => accounts = <<>>

\* A load fulfilled with an envelope of two records.
C1_Witness ==
    /\ Settles("loadAccounts")
    /\ last.ok
    /\ last.response.kind = "envelope"
    /\ last.response.has
    /\ Len(accounts) = 2

\* C2 as stated: bulkDelete always resolves successfully, and no earlier than
\* the last of its delete calls settles.
C2_Original ==
    Settles("bulkDelete") => (last.ok /\ last.pending = 0)

\* C2 amended: bulkDelete resolves successfully only when every delete call
\* has fulfilled, hence with no delete call left in flight; it rejects on the
\* first delete call that fails, and the delete calls still in flight at that
\* moment are exactly the ones that had not settled before.
C2_BulkDeleteSettled ==
    Settles("bulkDelete") =>
        /\ last.ok => last.pending = 0
        /\ (~last.ok /\ last.pending > 0) =>
               \E o \in InFlight("bulkDelete") :
                   /\ o.ids = last.ids
                   /\ Pending(o.calls) = last.pending
                   /\ Cardinality({i \in 1..Len(o.calls) : o.calls[i].state = "rejected"}) = 1

\* bulkDelete rejected while one of its delete calls is still in flight.
C2_Witness ==
    /\ Settles("bulkDelete")
    /\ ~last.ok
    /\ last.pending = 1

\* C3 as stated: an enable or disable operation called with ids none of which
\* is in accounts leaves accounts unchanged when it finishes, whatever
\* happened while its call was in flight.
C3_Original ==
    [][\A o \in BagToSet(ops) :
           (o.op \in ToggleOps /\ o.absent /\ ops' = ops (-) SetToBag({o}))
               => accounts' = accounts]_vars

\* C3 amended: an enable or disable operation issues its network call, and
\* leaves accounts unchanged when none of its ids is in accounts at the
\* moment the call settles.
C3_AbsentNoOp ==
    /\ (last.type = "call" /\ last.op \in ToggleOps) =>
           /\ accounts = last.before
           /\ \E o \in InFlight(last.op) : o.ids = last.ids
    /\ (last.type = "settle" /\ last.op \in ToggleOps /\ Absent(last.before, last.ids)) =>
           accounts = last.before

\* An enable or disable call fulfilled for an id that is not in a non-empty list.
C3_Witness ==
    /\ last.type = "settle"
    /\ last.op \in ToggleOps
    /\ last.ok
    /\ last.ids # <<>>
    /\ Absent(last.before, last.ids)
    /\ last.before # <<>>

\* C4: a deleteAccount(id) call removes at most one record, the one whose id
\* is the argument; the other records stay, unchanged and in order.
C4_DeleteRemovesOne ==
    Calls("deleteAccount") =>
        /\ Len(accounts) >= Len(last.before) - 1
        /\ \/ /\ accounts = last.before
              /\ \A k \in 1..Len(last.before) : last.before[k].id # last.ids[1]
           \/ \E k \in 1..Len(last.before) :
                  /\ last.before[k].id = last.ids[1]
                  /\ accounts = RemoveAt(last.before, k)

\* deleteAccount removed the first of two records.
C4_Witness ==
    /\ Calls("deleteAccount")
    /\ Len(last.before) = 2
    /\ last.before[1].id = last.ids[1]
    /\ accounts = <<last.before[2]>>

\* C5: the list never holds two records with the same id.
C5_UniqueIds ==
    \A i, j \in 1..Len(accounts) : i # j => accounts[i].id # accounts[j].id

\* Two records are held after an operation changed one of them.
C5_Witness ==
    /\ Len(accounts) = 2
    /\ last.type = "settle"
    /\ last.op = "disableAccount"
    /\ accounts # last.before

\* C6: when enableAccount or bulkEnable resolves, every record of accounts
\* whose id was passed is enabled and has no cooldown.
C6_EnableClearsCooldown ==
    (last.type = "settle" /\ last.op \in {"enableAccount", "bulkEnable"} /\ last.ok) =>
        \A i \in 1..Len(accounts) :
            Includes(last.ids, accounts[i].id) =>
                /\ accounts[i].disabled = FALSE
                /\ accounts[i].cooldown_seconds = 0
                /\ accounts[i].cooldown_reason = ""

\* enableAccount resolved for a record that was throttled.
C6_Witness ==
    /\ Settles("enableAccount")
    /\ last.ok
    /\ \E i \in 1..Len(last.before) :
           /\ last.before[i].id = last.ids[1]
           /\ last.before[i].cooldown_seconds # 0
           /\ last.before[i].cooldown_reason # ""

\* C7: on the call of bulkDelete(ids), before any delete call settles, no
\* record with an id of ids is left in accounts, and one delete call per
\* element of ids is in flight.
C7_BulkDeleteCalled ==
    Calls("bulkDelete") =>
        /\ \A i \in 1..Len(accounts) : ~Includes(last.ids, accounts[i].id)
        /\ last.pending = Len(last.ids)
        /\ \E o \in InFlight("bulkDelete") :
               /\ o.ids = last.ids
               /\ Len(o.calls) = Len(last.ids)
               /\ \A i \in 1..Len(o.calls) :
                      o.calls[i].id = last.ids[i] /\ o.calls[i].state = "pending"

\* bulkDelete of two ids emptied a list of two records.
C7_Witness ==
    /\ Calls("bulkDelete")
    /\ Len(last.ids) = 2
    /\ Len(last.before) = 2
    /\ accounts = <<>>

\* C8 as stated: whenever an updateConfig request settles, fulfilled or
\* rejected, loadAccounts runs: a list() request is issued and isLoading set.
C8_Original ==
    [][configCalls' < configCalls => (listCalls' = listCalls + 1 /\ isLoading')]_vars

\* C8 amended: when an updateConfig request fulfils, loadAccounts runs: a
\* list() request is issued and isLoading set; when it rejects, no list()
\* request is issued.
C8_ReloadOnSuccess ==
    [][configCalls' < configCalls =>
           IF last'.ok
           THEN listCalls' = listCalls + 1 /\ isLoading'
           ELSE listCalls' = listCalls /\ isLoading' = isLoading]_vars

\* The updateConfig request fulfilled and its list() request is the one in flight.
C8_Witness ==
    /\ last.type = "reply"
    /\ last.op = "updateConfig"
    /\ last.ok
    /\ listCalls = 1
    /\ isLoading

\* C9 as stated: once the display server has failed to start, the script
\* does not launch the application.
C9_Original ==
    [][xvfb = "failed" => pc' # "app"]_vars

\* C10: isLoading is true only while a list() request is in flight.
C10_LoadingOnlyDuringLoad ==
    isLoading => listCalls > 0

\* isLoading is set while two loads overlap.
C10_Witness ==
    /\ isLoading
    /\ listCalls = 2

\* C11: disable and enable operations change the list only when their network
\* call has fulfilled: neither the call of the operation nor the rejection of
\* its network call changes accounts, and a rejection settles the operation
\* as rejected.
C11_ConfirmThenUpdate ==
    (last.op \in ToggleOps /\ last.type \in {"call", "settle"}) =>
        /\ accounts # last.before => (last.type = "settle" /\ last.ok)
        /\ last.type = "call" => \E o \in InFlight(last.op) : o.ids = last.ids

\* A disable call was rejected for a record that is held and enabled.
C11_Witness ==
    /\ last.type = "settle"
    /\ last.op \in {"disableAccount", "bulkDisable"}
    /\ ~last.ok
    /\ \E k \in 1..Len(accounts) :
           Includes(last.ids, accounts[k].id) /\ ~accounts[k].disabled

\* The ids of the records of a list.
IdsOf(list) == {list[k].id : k \in 1..Len(list)}

\* C12: deleteAccount(id) removes the record on the call, with the delete call
\* then in flight; a rejected delete call rejects the operation and rolls
\* nothing back; and only a fulfilled list() brings an id into accounts that
\* was not there before.
C12_OptimisticDelete ==
    /\ Calls("deleteAccount") =>
           /\ last.ids[1] \notin IdsOf(accounts)
           /\ \E o \in InFlight("deleteAccount") : o.ids = last.ids
    /\ (Settles("deleteAccount") /\ ~last.ok) => accounts = last.before
    /\ (last.type # "init" /\ ~(Settles("loadAccounts") /\ last.ok)) =>
           IdsOf(accounts) \subseteq IdsOf(last.before)

\* The delete call was rejected and the record is still missing from the list.
C12_Witness ==
    /\ Settles("deleteAccount")
    /\ ~last.ok
    /\ last.ids[1] \notin IdsOf(accounts)
    /\ Len(accounts) = 1

\* C13: the script goes through its commands in order: the display server is
\* started before the wait, DISPLAY becomes :99 only after the wait, and the
\* application is exec'd only after that; whenever the application runs,
\* DISPLAY is :99 and the display server start has been issued.
C13_BootOrder ==
    /\ pc = "xvfb" <=> xvfb = "none"
    /\ pc \in {"xvfb", "sleep", "export"} => display # ":99"
    /\ pc \in {"exec", "app"} => (display = ":99" /\ xvfb # "none")
    /\ (pc = "exited" /\ exitCode \in {0, 127}) => (display = ":99" /\ xvfb # "none")
    /\ (pc = "exited" /\ exitCode = 1 /\ display # ":99") => ~sleepOk

\* The application runs, on display 99, with the display server listening.
C13_Witness ==
    /\ pc = "app"
    /\ display = ":99"
    /\ xvfb = "listening"

\* C14: when an enable or disable operation settles, accounts holds the same
\* ids in the same order as before; a record whose id was not passed keeps
\* all its fields; a record whose id was passed keeps its cooldown fields
\* under disable, and changes in nothing but disabled and the cooldown fields
\* under enable.
C14_TogglesKeepShape ==
    (last.type = "settle" /\ last.op \in ToggleOps) =>
        /\ Len(accounts) = Len(last.before)
        /\ \A k \in 1..Len(accounts) :
               /\ accounts[k].id = last.before[k].id
               /\ ~Includes(last.ids, accounts[k].id) => accounts[k] = last.before[k]
               /\ last.op \in {"disableAccount", "bulkDisable"} =>
                      /\ accounts[k].cooldown_seconds = last.before[k].cooldown_seconds
                      /\ accounts[k].cooldown_reason = last.before[k].cooldown_reason
                      /\ accounts[k].disabled \in {TRUE, last.before[k].disabled}
               /\ DOMAIN accounts[k] = DOMAIN last.before[k]

\* bulkDisable changed the second of two records and left the first alone.
C14_Witness ==
    /\ Settles("bulkDisable")
    /\ last.ok
    /\ Len(accounts) = 2
    /\ accounts[1] = last.before[1]
    /\ accounts[2] # last.before[2]

\* The settlements, by position in settling order, in which list() fulfilled.
Fulfilled == {k \in 1..Len(settled) : settled[k].ok}

LastFulfilled == CHOOSE k \in Fulfilled : \A j \in Fulfilled : j <= k

\* C15: under overlapping loads, whatever the order of issue, accounts is the
\* payload of the list() request that fulfilled last in settling order (the
\* initial empty list while none has fulfilled); a later rejection changes
\* nothing.
C15_LastSettledWins ==
    /\ listCalls = Len(requests)
    /\ accounts = IF Fulfilled = {} THEN <<>> ELSE settled[LastFulfilled].response.list

\* Two loads overlapped, the one issued last fulfilled first, and the list is
\* the different payload of the one issued first.
C15_Witness ==
    /\ requests = <<>>
    /\ Len(settled) = 2
    /\ settled[1].n = 2 /\ settled[1].ok /\ settled[1].seen = 2
    /\ settled[2].n = 1 /\ settled[2].ok
    /\ settled[1].response.list # settled[2].response.list
    /\ accounts = settled[2].response.list

\* C16: a fulfilled list() puts every record of its response into accounts as
\* sent, whatever was done to the list while the request was in flight: a
\* record deleted locally is back, and a record whose flags were flipped
\* locally has the flags of the response.
C16_LoadDiscardsLocalChanges ==
    (Settles("loadAccounts") /\ last.ok) =>
        /\ \A k \in 1..Len(last.response.list) :
               \E j \in 1..Len(accounts) : accounts[j] = last.response.list[k]
        /\ \A j \in 1..Len(accounts) :
               \E k \in 1..Len(last.response.list) : accounts[j] = last.response.list[k]

\* A record is back in the list while its deleteAccount call is still in flight.
C16_Witness ==
    /\ Settles("loadAccounts")
    /\ last.ok
    /\ \E o \in InFlight("deleteAccount") : o.ids[1] \in IdsOf(accounts)

\* C17: isLoading is true exactly while no list() request has settled since
\* the latest one was issued, so it is false after the first settlement of
\* two overlapping loads although the other is in flight; it equals "a load
\* is in flight" as long as no request settled while another was in flight.
C17_LoadingIsNoCount ==
    /\ isLoading <=> (Issued > 0 /\ \A k \in 1..Len(settled) : settled[k].seen < Issued)
    /\ (Settles("loadAccounts") /\ requests # <<>>) => ~isLoading
    /\ (\A k \in 1..Len(settled) : settled[k].seen = k) => (isLoading <=> requests # <<>>)

\* The first of two overlapping loads has settled: isLoading is false with a
\* load in flight.
C17_Witness ==
    /\ ~isLoading
    /\ Len(requests) = 1
    /\ Len(settled) = 1
    /\ settled[1].seen = 2

====
